---- MODULE Spec2Model ----
(***************************************************************************)
(* Streaming Base64Decoder and QuotedPrintableDecoder of                   *)
(* src/annotated_decoders.py, each wrapping an underlying sink.            *)
(* Bytes are the integers 0..255; a bytes value is a sequence of them.     *)
(***************************************************************************)
EXTENDS Integers, Sequences, FiniteSets, TLC

\* ------------------------------------------------------------------------
\* Byte values named in the code: "=", and the CR LF of a soft line break
\* ------------------------------------------------------------------------
PAD == 61
CR == 13
LF == 10

\* ------------------------------------------------------------------------
\* Bounds of the model
\* ------------------------------------------------------------------------
MaxChunk == 3
MaxBytesQP == 4
MaxCalls == 3
MaxPlain == 4
MaxTokens == 3
MaxScript == 3

\* ------------------------------------------------------------------------
\* base64.b64decode(val): binascii.a2b_base64 in its default, non-strict
\* mode, as called by Base64Decoder.write
\* ------------------------------------------------------------------------

\* table_a2b_base64: the 6-bit value of an alphabet byte, 64 for any other
B64Table(c) ==
    IF c >= 65 /\ c <= 90 THEN c - 65
    ELSE IF c >= 97 /\ c <= 122 THEN c - 97 + 26
    ELSE IF c >= 48 /\ c <= 57 THEN c - 48 + 52
    ELSE IF c = 43 THEN 62
    ELSE IF c = 47 THEN 63
    ELSE 64

\* one data character entering the quad: the byte it completes, if any
B64Emit(quad_pos, leftchar, v) ==
    IF quad_pos = 0 THEN <<>>
    ELSE IF quad_pos = 1 THEN <<(leftchar * 4 + (v \div 16)) % 256>>
    ELSE IF quad_pos = 2 THEN <<(leftchar * 16 + (v \div 4)) % 256>>
    ELSE <<(leftchar * 64 + v) % 256>>

B64Left(quad_pos, v) ==
    IF quad_pos = 0 THEN v
    ELSE IF quad_pos = 1 THEN v % 16
    ELSE IF quad_pos = 2 THEN v % 4
    ELSE 0

RECURSIVE B64Loop(_, _, _, _, _, _)
B64Loop(s, i, quad_pos, leftchar, pads, out) ==
    IF i > Len(s)
    THEN [raised |-> quad_pos # 0, out |-> IF quad_pos # 0 THEN <<>> ELSE out]
    ELSE IF s[i] = PAD
    THEN IF quad_pos >= 2 /\ quad_pos + pads + 1 >= 4
         THEN [raised |-> FALSE, out |-> out]
         ELSE B64Loop(s, i + 1, quad_pos, leftchar,
                      IF quad_pos >= 2 THEN pads + 1 ELSE pads, out)
    ELSE IF B64Table(s[i]) >= 64
    THEN B64Loop(s, i + 1, quad_pos, leftchar, pads, out)
    ELSE B64Loop(s, i + 1, (quad_pos + 1) % 4,
                 B64Left(quad_pos, B64Table(s[i])), 0,
                 out \o B64Emit(quad_pos, leftchar, B64Table(s[i])))

\* [raised |-> binascii.Error was raised, out |-> the decoded bytes]
B64Decode(s) == B64Loop(s, 1, 0, 0, 0, <<>>)

\* ------------------------------------------------------------------------
\* binascii.a2b_qp(enc), header=False, as called by QuotedPrintableDecoder
\* ------------------------------------------------------------------------
IsHex(c) ==
    \/ c >= 65 /\ c <= 70
    \/ c >= 97 /\ c <= 102
    \/ c >= 48 /\ c <= 57

HexVal(c) ==
    IF c >= 48 /\ c <= 57 THEN c - 48
    ELSE IF c >= 65 /\ c <= 70 THEN c - 65 + 10
    ELSE c - 97 + 10

\* while (in < datalen && data[in] != '\n') in++
RECURSIVE SkipToLF(_, _)
SkipToLF(d, in) ==
    IF in <= Len(d) /\ d[in] # LF THEN SkipToLF(d, in + 1) ELSE in

RECURSIVE QpLoop(_, _, _)
QpLoop(d, in, out) ==
    IF in > Len(d) THEN out
    ELSE IF d[in] = PAD
    THEN IF in + 1 > Len(d) THEN out
         ELSE IF d[in + 1] = LF \/ d[in + 1] = CR
         THEN LET stop == IF d[in + 1] # LF THEN SkipToLF(d, in + 1) ELSE in + 1
              IN  QpLoop(d, IF stop <= Len(d) THEN stop + 1 ELSE stop, out)
         ELSE IF d[in + 1] = PAD
         THEN QpLoop(d, in + 2, Append(out, PAD))
         ELSE IF in + 2 <= Len(d) /\ IsHex(d[in + 1]) /\ IsHex(d[in + 2])
         THEN QpLoop(d, in + 3,
                     Append(out, HexVal(d[in + 1]) * 16 + HexVal(d[in + 2])))
         ELSE QpLoop(d, in + 1, Append(out, PAD))
    ELSE QpLoop(d, in + 1, Append(out, d[in]))

A2bQp(d) == QpLoop(d, 1, <<>>)

\* ------------------------------------------------------------------------
\* State
\* ------------------------------------------------------------------------
VARIABLES
    kind,          \* which decoder was constructed: "b64" or "qp"
    b64_cache,     \* Base64Decoder.cache
    qp_cache,      \* QuotedPrintableDecoder.cache
    sink,          \* the calls received by self.underlying, in order
    has_close,     \* hasattr(self.underlying, "close")
    has_finalize,  \* hasattr(self.underlying, "finalize")
    ret,           \* how the latest call on the decoder ended
    ncalls,        \* number of calls made on the decoder
    total,         \* number of bytes passed to the writes that returned
    fed,           \* quoted-printable: the data of all writes, concatenated
    handed,        \* quoted-printable: the segments passed to a2b_qp, concatenated
    plain,         \* round trip: the byte sequence that was encoded
    tokens,        \* quoted-printable stream: its encoding units
    stream,        \* the encoded stream the caller feeds in chunks
    pos            \* how many bytes of stream were written so far

decoder == <<kind, b64_cache, qp_cache, sink, has_close, has_finalize,
             ret, ncalls, total, fed, handed>>
driver == <<plain, tokens, stream, pos>>
vars == <<kind, b64_cache, qp_cache, sink, has_close, has_finalize,
          ret, ncalls, total, fed, handed, plain, tokens, stream, pos>>

SeqsUpTo(S, n) == UNION {[1..k -> S] : k \in 0..n}

\* the calls a sink can receive
SinkWrite(b) == [op |-> "write", data |-> b]
SinkFinalize == [op |-> "finalize", data |-> <<>>]
SinkClose == [op |-> "close", data |-> <<>>]

\* how a call on the decoder ended
Returned(name, v) == [op |-> name, raised |-> FALSE, value |-> v]
Raised(name) == [op |-> name, raised |-> TRUE, value |-> 0]

\* data[-n:] for 0 < n
LastBytes(data, n) ==
    IF n >= Len(data) THEN data
    ELSE SubSeq(data, Len(data) - n + 1, Len(data))

\* ------------------------------------------------------------------------
\* Base64Decoder
\* ------------------------------------------------------------------------

\* variant of B64Combined: the cached bytes are not put in front
B64CombinedNoCache(c, data) == data

\* data = bytes(self.cache) + data
B64Combined(c, data) == IF Len(c) > 0 THEN c \o data ELSE data

\* val = data[:decode_len], decode_len = (len(data) // 4) * 4
B64Prefix(data) == SubSeq(data, 1, (Len(data) \div 4) * 4)

\* variant of B64Rest: data[:remaining_len], the head instead of the tail
B64RestHead(data) ==
    IF Len(data) % 4 > 0 THEN SubSeq(data, 1, Len(data) % 4) ELSE <<>>

\* variant of B64Rest: the whole buffer is kept when a remainder exists
B64RestAll(data) == IF Len(data) % 4 > 0 THEN data ELSE <<>>

\* the new cache: data[-remaining_len:] or b""
B64Rest(data) ==
    IF Len(data) % 4 > 0 THEN LastBytes(data, Len(data) % 4) ELSE <<>>

\* variant of B64WriteOutcome: the cache is replaced before decoding
B64WriteOutcomeCacheFirst(c, d) ==
    LET data == B64Combined(c, d)
        val == B64Prefix(data)
        decoded == B64Decode(val)
    IN  [raised |-> Len(val) > 0 /\ decoded.raised,
         writes |-> IF Len(val) > 0 /\ ~decoded.raised
                    THEN <<SinkWrite(decoded.out)>> ELSE <<>>,
         cache |-> B64Rest(data),
         value |-> IF Len(val) > 0 /\ decoded.raised THEN 0 ELSE Len(data)]

\* variant of B64WriteOutcome: returns the length of the argument alone
B64WriteOutcomeArgLen(c, d) ==
    LET data == B64Combined(c, d)
        val == B64Prefix(data)
        decoded == B64Decode(val)
    IN  IF Len(val) > 0 /\ decoded.raised
        THEN [raised |-> TRUE, writes |-> <<>>, cache |-> c, value |-> 0]
        ELSE [raised |-> FALSE,
              writes |-> IF Len(val) > 0 THEN <<SinkWrite(decoded.out)>>
                         ELSE <<>>,
              cache |-> B64Rest(data),
              value |-> Len(d)]

\* variant of B64WriteOutcome: an empty argument returns 0 at once
B64WriteOutcomeEmptyZero(c, d) ==
    LET data == B64Combined(c, d)
        val == B64Prefix(data)
        decoded == B64Decode(val)
    IN  IF Len(d) = 0
        THEN [raised |-> FALSE, writes |-> <<>>, cache |-> c, value |-> 0]
        ELSE IF Len(val) > 0 /\ decoded.raised
        THEN [raised |-> TRUE, writes |-> <<>>, cache |-> c, value |-> 0]
        ELSE [raised |-> FALSE,
              writes |-> IF Len(val) > 0 THEN <<SinkWrite(decoded.out)>>
                         ELSE <<>>,
              cache |-> B64Rest(data),
              value |-> Len(data)]

\* Base64Decoder.write on cache c: whether DecodeError is raised, the
\* writes made on the underlying sink, the cache left and the value returned
B64WriteOutcome(c, d) ==
    LET data == B64Combined(c, d)
        val == B64Prefix(data)
        decoded == B64Decode(val)
    IN  IF Len(val) > 0 /\ decoded.raised
        THEN [raised |-> TRUE, writes |-> <<>>, cache |-> c, value |-> 0]
        ELSE [raised |-> FALSE,
              writes |-> IF Len(val) > 0 THEN <<SinkWrite(decoded.out)>>
                         ELSE <<>>,
              cache |-> B64Rest(data),
              value |-> Len(data)]

\* variant of B64FinalizeRaises: a single cached byte is let through
B64FinalizeRaisesOffByOne(c) == Len(c) > 1

\* Base64Decoder.finalize: raises while the cache is non-empty
B64FinalizeRaises(c) == Len(c) > 0

B64Write(d) ==
    /\ kind = "b64"
    /\ LET r == B64WriteOutcome(b64_cache, d)
       IN  /\ b64_cache' = r.cache
           /\ sink' = sink \o r.writes
           /\ ret' = IF r.raised THEN Raised("write")
                     ELSE Returned("write", r.value)
           /\ total' = IF r.raised THEN total ELSE total + Len(d)
    /\ ncalls' = ncalls + 1
    /\ UNCHANGED <<kind, qp_cache, has_close, has_finalize, fed, handed>>

\* variant of B64Finalize: the cache is emptied before the error is raised
B64FinalizeDropsCache ==
    /\ kind = "b64"
    /\ IF B64FinalizeRaises(b64_cache)
       THEN /\ ret' = Raised("finalize")
            /\ sink' = sink
       ELSE /\ ret' = Returned("finalize", 0)
            /\ sink' = IF has_finalize THEN Append(sink, SinkFinalize)
                       ELSE sink
    /\ b64_cache' = <<>>
    /\ ncalls' = ncalls + 1
    /\ UNCHANGED <<kind, qp_cache, has_close, has_finalize, total,
                   fed, handed>>

B64Finalize ==
    /\ kind = "b64"
    /\ IF B64FinalizeRaises(b64_cache)
       THEN /\ ret' = Raised("finalize")
            /\ sink' = sink
       ELSE /\ ret' = Returned("finalize", 0)
            /\ sink' = IF has_finalize THEN Append(sink, SinkFinalize)
                       ELSE sink
    /\ ncalls' = ncalls + 1
    /\ UNCHANGED <<kind, b64_cache, qp_cache, has_close, has_finalize, total,
                   fed, handed>>

\* variant of B64Close: closing also discards the cached bytes
B64CloseDropsCache ==
    /\ kind = "b64"
    /\ sink' = IF has_close THEN Append(sink, SinkClose) ELSE sink
    /\ b64_cache' = <<>>
    /\ ret' = Returned("close", 0)
    /\ ncalls' = ncalls + 1
    /\ UNCHANGED <<kind, qp_cache, has_close, has_finalize, total,
                   fed, handed>>

B64Close ==
    /\ kind = "b64"
    /\ sink' = IF has_close THEN Append(sink, SinkClose) ELSE sink
    /\ ret' = Returned("close", 0)
    /\ ncalls' = ncalls + 1
    /\ UNCHANGED <<kind, b64_cache, qp_cache, has_close, has_finalize, total,
                   fed, handed>>

\* ------------------------------------------------------------------------
\* QuotedPrintableDecoder
\* ------------------------------------------------------------------------

\* data = self.cache + data
QPCombined(c, data) == IF Len(c) > 0 THEN c \o data ELSE data

\* variant of QPTailHasEq: any non-empty buffer has its tail held back
QPTailNonEmpty(data) == Len(data) > 0

\* data[-2:].find(b"=") != -1
QPTailHasEq(data) ==
    \E i \in 1..Len(data) : i > Len(data) - 2 /\ data[i] = PAD

\* variant of QPEnc: the whole buffer is decoded, the tail included
QPEncAll(data) == data

\* enc: data[:-2] when the tail holds "=", else data
QPEnc(data) ==
    IF QPTailHasEq(data) THEN SubSeq(data, 1, Len(data) - 2) ELSE data

\* variant of QPRest: only the last byte is held back
QPRestOne(data) == IF QPTailHasEq(data) THEN LastBytes(data, 1) ELSE <<>>

\* variant of QPRest: three bytes are held back
QPRestThree(data) == IF QPTailHasEq(data) THEN LastBytes(data, 3) ELSE <<>>

\* rest: data[-2:] when the tail holds "=", else b""
QPRest(data) == IF QPTailHasEq(data) THEN LastBytes(data, 2) ELSE <<>>

\* QuotedPrintableDecoder.write on cache c
QPWriteOutcome(c, d) ==
    LET data == QPCombined(c, d)
        enc == QPEnc(data)
    IN  [writes |-> IF Len(enc) > 0 THEN <<SinkWrite(A2bQp(enc))>> ELSE <<>>,
         cache |-> QPRest(data),
         value |-> Len(data)]

\* variant of QPFinalizeCalls: the sink is finalized before the cache is drained
QPFinalizeCallsReversed(c, hasfin) ==
    (IF hasfin THEN <<SinkFinalize>> ELSE <<>>)
        \o (IF Len(c) > 0 THEN <<SinkWrite(A2bQp(c))>> ELSE <<>>)

\* QuotedPrintableDecoder.finalize on cache c: the calls made on the sink
QPFinalizeCalls(c, hasfin) ==
    (IF Len(c) > 0 THEN <<SinkWrite(A2bQp(c))>> ELSE <<>>)
        \o (IF hasfin THEN <<SinkFinalize>> ELSE <<>>)

\* variant of QPWrite: "=" not followed by two hex digits raises DecodeError
QPWriteStrict(d) ==
    /\ kind = "qp"
    /\ LET enc == QPEnc(QPCombined(qp_cache, d))
           r == QPWriteOutcome(qp_cache, d)
       IN  IF \E i \in 1..Len(enc) :
                  /\ enc[i] = PAD
                  /\ ~(i + 2 <= Len(enc) /\ IsHex(enc[i + 1])
                          /\ IsHex(enc[i + 2]))
           THEN /\ ret' = Raised("write")
                /\ UNCHANGED <<qp_cache, sink, total, fed, handed>>
           ELSE /\ qp_cache' = r.cache
                /\ sink' = sink \o r.writes
                /\ ret' = Returned("write", r.value)
                /\ total' = total + Len(d)
                /\ fed' = fed \o d
                /\ handed' = handed \o enc
    /\ ncalls' = ncalls + 1
    /\ UNCHANGED <<kind, b64_cache, has_close, has_finalize>>

QPWrite(d) ==
    /\ kind = "qp"
    /\ LET r == QPWriteOutcome(qp_cache, d)
       IN  /\ qp_cache' = r.cache
           /\ sink' = sink \o r.writes
           /\ ret' = Returned("write", r.value)
    /\ total' = total + Len(d)
    /\ fed' = fed \o d
    /\ handed' = handed \o QPEnc(QPCombined(qp_cache, d))
    /\ ncalls' = ncalls + 1
    /\ UNCHANGED <<kind, b64_cache, has_close, has_finalize>>

QPFinalize ==
    /\ kind = "qp"
    /\ sink' = sink \o QPFinalizeCalls(qp_cache, has_finalize)
    /\ qp_cache' = <<>>
    /\ ret' = Returned("finalize", 0)
    /\ handed' = handed \o qp_cache
    /\ ncalls' = ncalls + 1
    /\ UNCHANGED <<kind, b64_cache, has_close, has_finalize, total, fed>>

QPClose ==
    /\ kind = "qp"
    /\ sink' = IF has_close THEN Append(sink, SinkClose) ELSE sink
    /\ ret' = Returned("close", 0)
    /\ ncalls' = ncalls + 1
    /\ UNCHANGED <<kind, b64_cache, qp_cache, has_close, has_finalize, total,
                   fed, handed>>

\* ------------------------------------------------------------------------
\* Spec: one decoder over a sink, driven by any calls in any order
\* ------------------------------------------------------------------------
\* the bytes of the chunks: "Z" "=" "!" for Base64, "=" "A" LF for
\* quoted-printable; a Base64 chunk has at most MaxChunk bytes, the chunks
\* written to a quoted-printable decoder have at most MaxBytesQP bytes in all
B64Bytes == {90, PAD, 33}
QPBytes == {PAD, 65, LF}
B64Chunks == SeqsUpTo(B64Bytes, MaxChunk)

\* __init__ of either decoder
Constructed ==
    /\ b64_cache = <<>>
    /\ qp_cache = <<>>
    /\ sink = <<>>
    /\ has_close \in BOOLEAN
    /\ has_finalize \in BOOLEAN
    /\ ret = Returned("init", 0)
    /\ ncalls = 0
    /\ total = 0
    /\ fed = <<>>
    /\ handed = <<>>

Init ==
    /\ Constructed
    /\ kind \in {"b64", "qp"}
    /\ plain = <<>>
    /\ tokens = <<>>
    /\ stream = <<>>
    /\ pos = 0

CallB64Write ==
    \E d \in B64Chunks : ncalls < MaxCalls /\ B64Write(d) /\ UNCHANGED driver
CallB64Finalize == ncalls < MaxCalls /\ B64Finalize /\ UNCHANGED driver
CallB64Close == ncalls < MaxCalls /\ B64Close /\ UNCHANGED driver
CallQPWrite ==
    \E d \in SeqsUpTo(QPBytes, MaxBytesQP - total) :
        ncalls < MaxCalls /\ QPWrite(d) /\ UNCHANGED driver
CallQPFinalize == ncalls < MaxCalls /\ QPFinalize /\ UNCHANGED driver
CallQPClose == ncalls < MaxCalls /\ QPClose /\ UNCHANGED driver

Next ==
    \/ CallB64Write
    \/ CallB64Finalize
    \/ CallB64Close
    \/ CallQPWrite
    \/ CallQPFinalize
    \/ CallQPClose

Spec == Init /\ [][Next]_vars

\* ------------------------------------------------------------------------
\* SpecQP: a QuotedPrintableDecoder over a sink, driven by any calls
\* ------------------------------------------------------------------------
InitQP == Init /\ kind = "qp"

NextQP == CallQPWrite \/ CallQPFinalize \/ CallQPClose

SpecQP == InitQP /\ [][NextQP]_vars

\* ------------------------------------------------------------------------
\* SpecRoundTrip: a Base64Decoder is fed base64_encode(plain), split into
\* consecutive non-empty chunks in every possible way, then finalized
\* ------------------------------------------------------------------------
PlainBytes == {0, 102, 255}

\* the alphabet byte of a 6-bit value (RFC 4648, inverse of B64Table)
B64Char(v) ==
    IF v < 26 THEN 65 + v
    ELSE IF v < 52 THEN 97 + v - 26
    ELSE IF v < 62 THEN 48 + v - 52
    ELSE IF v = 62 THEN 43
    ELSE 47

\* base64.b64encode: 3 bytes become 4 alphabet bytes, "=" pads the last group
RECURSIVE B64Encode(_)
B64Encode(b) ==
    IF Len(b) = 0 THEN <<>>
    ELSE IF Len(b) = 1
    THEN <<B64Char(b[1] \div 4), B64Char((b[1] % 4) * 16), PAD, PAD>>
    ELSE IF Len(b) = 2
    THEN <<B64Char(b[1] \div 4), B64Char((b[1] % 4) * 16 + b[2] \div 16),
           B64Char((b[2] % 16) * 4), PAD>>
    ELSE <<B64Char(b[1] \div 4), B64Char((b[1] % 4) * 16 + b[2] \div 16),
           B64Char((b[2] % 16) * 4 + b[3] \div 64), B64Char(b[3] % 64)>>
         \o B64Encode(SubSeq(b, 4, Len(b)))

InitRoundTrip ==
    /\ Constructed
    /\ kind = "b64"
    /\ plain \in SeqsUpTo(PlainBytes, MaxPlain)
    /\ tokens = <<>>
    /\ stream = B64Encode(plain)
    /\ pos = 0

FeedB64 ==
    \E k \in 1..(Len(stream) - pos) :
        /\ ret.op # "finalize"
        /\ B64Write(SubSeq(stream, pos + 1, pos + k))
        /\ pos' = pos + k
        /\ UNCHANGED <<plain, tokens, stream>>

EndB64 ==
    /\ pos = Len(stream)
    /\ ret.op # "finalize"
    /\ B64Finalize
    /\ UNCHANGED driver

NextRoundTrip == FeedB64 \/ EndB64

SpecRoundTrip == InitRoundTrip /\ [][NextRoundTrip]_vars

\* ------------------------------------------------------------------------
\* SpecQPStream: a QuotedPrintableDecoder is fed a valid quoted-printable
\* stream (literals, =XX escapes, =CRLF soft breaks), split into
\* consecutive non-empty chunks in every possible way, then finalized
\* ------------------------------------------------------------------------
\* the units of the stream: "A", "=3D" and "=" CR LF
QPLiteral == <<65>>
QPEscape == <<PAD, 51, 68>>
QPSoftBreak == <<PAD, CR, LF>>
QPTokens == {QPLiteral, QPEscape, QPSoftBreak}

RECURSIVE Flatten(_)
Flatten(ts) == IF Len(ts) = 0 THEN <<>> ELSE Head(ts) \o Flatten(Tail(ts))

InitQPStream ==
    /\ Constructed
    /\ kind = "qp"
    /\ plain = <<>>
    /\ tokens \in SeqsUpTo(QPTokens, MaxTokens)
    /\ stream = Flatten(tokens)
    /\ pos = 0

FeedQP ==
    \E k \in 1..(Len(stream) - pos) :
        /\ ret.op # "finalize"
        /\ QPWrite(SubSeq(stream, pos + 1, pos + k))
        /\ pos' = pos + k
        /\ UNCHANGED <<plain, tokens, stream>>

EndQP ==
    /\ pos = Len(stream)
    /\ ret.op # "finalize"
    /\ QPFinalize
    /\ UNCHANGED driver

NextQPStream == FeedQP \/ EndQP

SpecQPStream == InitQPStream /\ [][NextQPStream]_vars

\* ------------------------------------------------------------------------
\* SpecScript: a Base64Decoder runs a caller's script of calls in order;
\* the writes take the chunks of the documented scenarios: b"", "Zm9",
\* "vYmFy", "Zm9v", "YmFy" and "Zm9vYmF!"
\* ------------------------------------------------------------------------
Zm9 == <<90, 109, 57>>
vYmFy == <<118, 89, 109, 70, 121>>
foobar == <<102, 111, 111, 98, 97, 114>>
ScriptChunks ==
    {<<>>, Zm9, vYmFy, <<90, 109, 57, 118>>, <<89, 109, 70, 121>>,
     <<90, 109, 57, 118, 89, 109, 70, 33>>}

\* a call on the decoder has the shape of a call on a sink
ScriptCalls ==
    {SinkWrite(c) : c \in ScriptChunks} \cup {SinkFinalize, SinkClose}

InitScript ==
    /\ Constructed
    /\ kind = "b64"
    /\ plain = <<>>
    /\ tokens \in SeqsUpTo(ScriptCalls, MaxScript)
    /\ stream = <<>>
    /\ pos = 0

RunWrite ==
    /\ pos < Len(tokens)
    /\ tokens[pos + 1].op = "write"
    /\ B64Write(tokens[pos + 1].data)
    /\ pos' = pos + 1
    /\ UNCHANGED <<plain, tokens, stream>>

RunFinalize ==
    /\ pos < Len(tokens)
    /\ tokens[pos + 1].op = "finalize"
    /\ B64Finalize
    /\ pos' = pos + 1
    /\ UNCHANGED <<plain, tokens, stream>>

RunClose ==
    /\ pos < Len(tokens)
    /\ tokens[pos + 1].op = "close"
    /\ B64Close
    /\ pos' = pos + 1
    /\ UNCHANGED <<plain, tokens, stream>>

NextScript == RunWrite \/ RunFinalize \/ RunClose

SpecScript == InitScript /\ [][NextScript]_vars

\* ------------------------------------------------------------------------
\* SpecChain: a Base64Decoder whose sink is a QuotedPrintableDecoder whose
\* sink is the terminal sink; b64_cache is the outer decoder's cache,
\* qp_cache the inner one's, sink the calls on the terminal sink
\* ------------------------------------------------------------------------

\* base64 text whose decoding holds quoted-printable escapes:
\* "QT0=" is "A=", "QT00" is "A=4", "PTQx" is "=41", and two pieces of "QT0="
ChainChunks ==
    {<<>>, <<81, 84, 48, PAD>>, <<81, 84, 48, 48>>, <<80, 84, 81, 120>>,
     <<81, 84>>, <<48, PAD>>}

\* the inner decoder's write applied to each write of the outer one, in order
RECURSIVE InnerWrites(_, _)
InnerWrites(c, ws) ==
    IF Len(ws) = 0
    THEN [cache |-> c, writes |-> <<>>, data |-> <<>>, enc |-> <<>>]
    ELSE LET r == QPWriteOutcome(c, Head(ws).data)
             t == InnerWrites(r.cache, Tail(ws))
         IN  [cache |-> t.cache,
              writes |-> r.writes \o t.writes,
              data |-> Head(ws).data \o t.data,
              enc |-> QPEnc(QPCombined(c, Head(ws).data)) \o t.enc]

InitChain ==
    /\ Constructed
    /\ kind = "chain"
    /\ plain = <<>>
    /\ tokens = <<>>
    /\ stream = <<>>
    /\ pos = 0

ChainWrite(d) ==
    /\ kind = "chain"
    /\ LET r == B64WriteOutcome(b64_cache, d)
           inner == InnerWrites(qp_cache, r.writes)
       IN  IF r.raised
           THEN /\ ret' = Raised("write")
                /\ UNCHANGED <<b64_cache, qp_cache, sink, total, fed, handed>>
           ELSE /\ b64_cache' = r.cache
                /\ qp_cache' = inner.cache
                /\ sink' = sink \o inner.writes
                /\ ret' = Returned("write", r.value)
                /\ total' = total + Len(d)
                /\ fed' = fed \o inner.data
                /\ handed' = handed \o inner.enc
    /\ ncalls' = ncalls + 1
    /\ UNCHANGED <<kind, has_close, has_finalize>>

\* variant of ChainFinalize: the outer finalize reaches the terminal sink's
\* finalize without draining the inner decoder
ChainFinalizeSkipsInner ==
    /\ kind = "chain"
    /\ IF B64FinalizeRaises(b64_cache)
       THEN /\ ret' = Raised("finalize")
            /\ UNCHANGED <<qp_cache, sink, handed>>
       ELSE /\ ret' = Returned("finalize", 0)
            /\ sink' = IF has_finalize THEN Append(sink, SinkFinalize)
                       ELSE sink
            /\ UNCHANGED <<qp_cache, handed>>
    /\ ncalls' = ncalls + 1
    /\ UNCHANGED <<kind, b64_cache, has_close, has_finalize, total, fed>>

\* Base64Decoder.finalize, whose underlying.finalize is
\* QuotedPrintableDecoder.finalize
ChainFinalize ==
    /\ kind = "chain"
    /\ IF B64FinalizeRaises(b64_cache)
       THEN /\ ret' = Raised("finalize")
            /\ UNCHANGED <<qp_cache, sink, handed>>
       ELSE /\ ret' = Returned("finalize", 0)
            /\ sink' = sink \o QPFinalizeCalls(qp_cache, has_finalize)
            /\ qp_cache' = <<>>
            /\ handed' = handed \o qp_cache
    /\ ncalls' = ncalls + 1
    /\ UNCHANGED <<kind, b64_cache, has_close, has_finalize, total, fed>>

\* Base64Decoder.close, whose underlying.close is QuotedPrintableDecoder.close
ChainClose ==
    /\ kind = "chain"
    /\ sink' = IF has_close THEN Append(sink, SinkClose) ELSE sink
    /\ ret' = Returned("close", 0)
    /\ ncalls' = ncalls + 1
    /\ UNCHANGED <<kind, b64_cache, qp_cache, has_close, has_finalize, total,
                   fed, handed>>

CallChainWrite ==
    /\ ncalls < MaxCalls
    /\ \E d \in ChainChunks : ChainWrite(d)
    /\ UNCHANGED driver

CallChainFinalize == ncalls < MaxCalls /\ ChainFinalize /\ UNCHANGED driver

CallChainClose == ncalls < MaxCalls /\ ChainClose /\ UNCHANGED driver

NextChain == CallChainWrite \/ CallChainFinalize \/ CallChainClose

SpecChain == InitChain /\ [][NextChain]_vars

\* ------------------------------------------------------------------------
\* Observations on the sink
\* ------------------------------------------------------------------------

\* the bytes forwarded to the sink, concatenated in call order
RECURSIVE SinkBytes(_)
SinkBytes(s) ==
    IF Len(s) = 0 THEN <<>>
    ELSE (IF Head(s).op = "write" THEN Head(s).data ELSE <<>>)
         \o SinkBytes(Tail(s))

Count(s, name) == Cardinality({i \in 1..Len(s) : s[i].op = name})

\* what the sink gets when S is written in a single call and then finalized
QPOneShot(S) ==
    LET w == QPWriteOutcome(<<>>, S)
    IN  SinkBytes(w.writes \o QPFinalizeCalls(w.cache, FALSE))

\* ------------------------------------------------------------------------
\* Properties
\* ------------------------------------------------------------------------

\* C1: feeding base64_encode(plain) in any split into write calls, every
\* write returns, finalize returns, and the bytes forwarded to the sink,
\* concatenated in call order, are exactly plain.
C1_RoundTrip ==
    /\ ~ret.raised
    /\ ret.op = "finalize" => SinkBytes(sink) = plain

\* a padded two-group stream was fed in at least three writes and finalized
C1_Witness ==
    /\ ret.op = "finalize"
    /\ Len(plain) = 4
    /\ ncalls >= 4
    /\ Count(sink, "write") >= 2

\* C2: for a valid quoted-printable stream, whatever the split into write
\* calls, the bytes forwarded to the sink by the writes and finalize are
\* the bytes forwarded when the stream is written in a single call.
C2_ChunkInvariance ==
    ret.op = "finalize" => SinkBytes(sink) = QPOneShot(stream)

\* the units of a stream other than its soft line breaks
WithoutSoftBreaks(ts) == SelectSeq(ts, LAMBDA t : t # QPSoftBreak)

\* C3: a stream holding the soft line break =CRLF forwards, whatever the
\* split, the output of the same stream without the soft line breaks, and
\* no CR or LF byte (no literal or escape of the stream decodes to one).
C3_SoftBreak ==
    (ret.op = "finalize" /\ \E i \in 1..Len(tokens) : tokens[i] = QPSoftBreak)
        => /\ SinkBytes(sink) = QPOneShot(Flatten(WithoutSoftBreaks(tokens)))
           /\ \A i \in 1..Len(SinkBytes(sink)) :
                  SinkBytes(sink)[i] \notin {CR, LF}

\* a byte that is neither in the Base64 alphabet nor "="
HasNonAlphabet(val) ==
    \E i \in 1..Len(val) : val[i] # PAD /\ B64Table(val[i]) >= 64

\* a "=" that is not among the last one or two bytes, all "=", of val
MalformedPadding(val) ==
    \E i \in 1..Len(val) :
        /\ val[i] = PAD
        /\ \/ i < Len(val) - 1
           \/ \E j \in (i + 1)..Len(val) : val[j] # PAD

\* C4: a Base64Decoder.write whose 4-byte-aligned prefix of cache + data
\* holds a byte outside the Base64 alphabet, or padding anywhere but at
\* the end of the prefix's last group, raises DecodeError in that call.
C4_Strictness ==
    [][\A d \in B64Chunks :
          (/\ B64Write(d)
           /\ \/ HasNonAlphabet(B64Prefix(B64Combined(b64_cache, d)))
              \/ MalformedPadding(B64Prefix(B64Combined(b64_cache, d))))
              => ret'.raised]_vars

\* C5: a Base64Decoder.write that raises DecodeError makes no call on the
\* sink and leaves the cache as it was before the call.
C5_FailedWriteKeepsState ==
    [][(kind = "b64" /\ ret'.op = "write" /\ ret'.raised)
          => (sink' = sink /\ b64_cache' = b64_cache)]_vars

\* a write raised while bytes were cached and earlier output was forwarded
C5_Witness ==
    /\ kind = "b64"
    /\ ret.op = "write"
    /\ ret.raised
    /\ Len(b64_cache) > 0
    /\ Count(sink, "write") > 0

\* C6: Base64Decoder.finalize raises DecodeError exactly when the number of
\* bytes passed to the writes that returned is not a multiple of 4; when it
\* returns, the sink's finalize was called last if the sink has one, and a
\* sink without finalize never receives one.
C6_FinalizeStrictness ==
    /\ (kind = "b64" /\ ret.op = "finalize")
          => /\ ret.raised <=> total % 4 # 0
             /\ (~ret.raised /\ has_finalize)
                   => (Len(sink) > 0 /\ sink[Len(sink)] = SinkFinalize)
    /\ (kind = "b64" /\ ~has_finalize) => Count(sink, "finalize") = 0

\* finalize returned after whole groups were written, and reached the sink
C6_Witness ==
    /\ kind = "b64"
    /\ ret.op = "finalize"
    /\ ~ret.raised
    /\ total >= 4
    /\ has_finalize
    /\ Count(sink, "write") > 0

\* C7: QuotedPrintableDecoder.finalize never raises; a non-empty cache is
\* decoded and forwarded in one sink write that precedes the sink's
\* finalize, the cache is empty afterwards, and the sink's finalize is
\* called exactly once if the sink has one, never otherwise.
C7_QPFinalize ==
    [][(kind = "qp" /\ ret'.op = "finalize")
          => LET new == SubSeq(sink', Len(sink) + 1, Len(sink'))
             IN  /\ ~ret'.raised
                 /\ qp_cache' = <<>>
                 /\ SubSeq(sink', 1, Len(sink)) = sink
                 /\ Count(new, "finalize") = IF has_finalize THEN 1 ELSE 0
                 /\ Count(new, "write") = IF Len(qp_cache) > 0 THEN 1 ELSE 0
                 /\ Count(new, "close") = 0
                 /\ Len(qp_cache) > 0 => new[1] = SinkWrite(A2bQp(qp_cache))]_vars

\* finalize after the single write "=A": the cached "=A" reaches the sink,
\* then the sink is finalized
C7_Witness ==
    /\ kind = "qp"
    /\ ret.op = "finalize"
    /\ ncalls = 2
    /\ sink = <<SinkWrite(<<PAD, 65>>), SinkFinalize>>

\* C8: the cache of a Base64Decoder holds at most 3 bytes between calls.
C8_B64CacheBound == kind = "b64" => Len(b64_cache) \in 0..3

\* three bytes are cached after a write that also forwarded a group
C8_Witness ==
    /\ kind = "b64"
    /\ ret.op = "write"
    /\ Len(b64_cache) = 3
    /\ Count(sink, "write") > 0

\* C9: the cache of a QuotedPrintableDecoder holds at most 2 bytes.
C9_QPCacheBound == kind = "qp" => Len(qp_cache) \in 0..2

\* two bytes are cached after a write that also forwarded the rest
C9_Witness ==
    /\ kind = "qp"
    /\ ret.op = "write"
    /\ Len(qp_cache) = 2
    /\ Count(sink, "write") > 0

\* C10: a write that returns, on either decoder, returns the length of the
\* cache before the call plus the length of its argument.
C10_WriteReturn ==
    [][(ret'.op = "write" /\ ~ret'.raised /\ ncalls' # ncalls)
          => ret'.value = Len(IF kind = "b64" THEN b64_cache ELSE qp_cache)
                          + (total' - total)]_vars

\* a write on a non-empty cache returned more than the chunk's length
C10_Witness ==
    /\ kind = "b64"
    /\ ret.op = "write"
    /\ ~ret.raised
    /\ ret.value > MaxChunk

\* the script starts with write(b"Zm9") and write(b"vYmFy")
SplitGroupScript ==
    /\ Len(tokens) >= 2
    /\ tokens[1] = SinkWrite(Zm9)
    /\ tokens[2] = SinkWrite(vYmFy)

\* C11 as claimed: on a fresh Base64Decoder write(b"Zm9") forwards nothing,
\* returns 3 and leaves cache = b"Zm9"; the following write(b"vYmFy")
\* forwards b"foobar" and returns 5.
C11_SplitGroupReturns5 ==
    SplitGroupScript
        => /\ pos = 1 => /\ sink = <<>>
                         /\ ret = Returned("write", 3)
                         /\ b64_cache = Zm9
           /\ pos = 2 => /\ sink = <<SinkWrite(foobar)>>
                         /\ ret = Returned("write", 5)

\* C11 as amended: on a fresh Base64Decoder write(b"Zm9") forwards nothing,
\* returns 3 and leaves cache = b"Zm9"; the following write(b"vYmFy")
\* forwards b"foobar", empties the cache and returns 8, the 3 cached bytes
\* plus the 5 of its argument.
C11_SplitGroup ==
    SplitGroupScript
        => /\ pos = 1 => /\ sink = <<>>
                         /\ ret = Returned("write", 3)
                         /\ b64_cache = Zm9
           /\ pos = 2 => /\ sink = <<SinkWrite(foobar)>>
                         /\ ret = Returned("write", 8)
                         /\ b64_cache = <<>>

\* both writes of the scenario were made
C11_Witness == SplitGroupScript /\ pos = 2

\* C12 as claimed: in every state of a Base64Decoder write(b"") makes no
\* sink call, leaves the cache unchanged and returns 0.
C12_EmptyWriteReturns0 ==
    [][(pos' = pos + 1 /\ tokens[pos + 1] = SinkWrite(<<>>))
          => /\ sink' = sink
             /\ b64_cache' = b64_cache
             /\ ret' = Returned("write", 0)]_vars

\* C12 as amended: in every state of a Base64Decoder write(b"") makes no
\* sink call, leaves the cache unchanged and returns the length of the
\* cache, which is 0 only when the cache is empty.
C12_EmptyWrite ==
    [][(pos' = pos + 1 /\ tokens[pos + 1] = SinkWrite(<<>>))
          => /\ sink' = sink
             /\ b64_cache' = b64_cache
             /\ ret' = Returned("write", Len(b64_cache))]_vars

\* write(b"") was the latest call, on a cache of three bytes
C12_Witness ==
    /\ pos >= 1
    /\ tokens[pos] = SinkWrite(<<>>)
    /\ Len(b64_cache) = 3

\* C17: a Base64Decoder.finalize raises exactly on a non-empty cache; when
\* it raises it makes no call on the sink and leaves the cache unchanged;
\* finalize and close never change the cache, so a finalize that follows a
\* raising finalize with no write in between raises again.
C17_FinalizeFailure ==
    [][(pos' = pos + 1 /\ tokens[pos + 1].op # "write")
          => /\ b64_cache' = b64_cache
             /\ tokens[pos + 1].op = "finalize"
                   => /\ ret'.raised <=> Len(b64_cache) > 0
                      /\ ret'.raised => sink' = sink
                      /\ (ret.op = "finalize" /\ ret.raised) => ret'.raised]_vars

\* two finalize calls in a row, the second raised on the cache left alone
C17_Witness ==
    /\ pos >= 2
    /\ tokens[pos - 1] = SinkFinalize
    /\ tokens[pos] = SinkFinalize
    /\ ret = Raised("finalize")
    /\ Len(b64_cache) > 0

\* C13: no write, finalize or close of a QuotedPrintableDecoder raises,
\* whatever the chunks: malformed escapes and empty chunks included.
C13_QPNeverRaises == kind = "qp" => ~ret.raised

\* the single write "=A" LF "A", an "=" followed by a non-hex pair, returned
\* and was forwarded as it is
C13_Witness ==
    /\ kind = "qp"
    /\ ncalls = 1
    /\ ret = Returned("write", 4)
    /\ fed = <<PAD, 65, LF, 65>>
    /\ sink = <<SinkWrite(<<PAD, 65, LF, 65>>)>>

\* C14: close, on either decoder and whatever the cache, leaves the cache
\* unchanged, forwards no bytes, raises nothing and calls the sink's close
\* exactly once if the sink has one, making no sink call otherwise.
C14_CloseNoSideEffects ==
    [][(ret'.op = "close" /\ ncalls' = ncalls + 1)
          => /\ b64_cache' = b64_cache
             /\ qp_cache' = qp_cache
             /\ ~ret'.raised
             /\ sink' = IF has_close THEN Append(sink, SinkClose) ELSE sink]_vars

\* a Base64Decoder holding cached bytes was closed and the sink was closed
C14_Witness ==
    /\ kind = "b64"
    /\ ret.op = "close"
    /\ has_close
    /\ Len(b64_cache) > 0
    /\ sink[Len(sink)] = SinkClose

\* C16: a QuotedPrintableDecoder.write with combined buffer C = old cache +
\* data keeps the last two bytes of C (all of C when shorter) as the new
\* cache when "=" is among them and decodes and forwards only the prefix
\* before them; otherwise it decodes and forwards all of C and empties the
\* cache; nothing is written to the sink when the part to decode is empty.
C16_QPSplitRule ==
    [][(kind = "qp" /\ ret'.op = "write" /\ ncalls' = ncalls + 1)
          => LET C == qp_cache \o SubSeq(fed', Len(fed) + 1, Len(fed'))
                 hasEq == \E i \in 1..Len(C) : i >= Len(C) - 1 /\ C[i] = PAD
                 keep == IF ~hasEq THEN <<>>
                         ELSE IF Len(C) < 2 THEN C
                         ELSE SubSeq(C, Len(C) - 1, Len(C))
                 part == SubSeq(C, 1, Len(C) - Len(keep))
             IN  /\ qp_cache' = keep
                 /\ handed' = handed \o part
                 /\ sink' = IF Len(part) = 0 THEN sink
                            ELSE Append(sink, SinkWrite(A2bQp(part)))]_vars

\* the single write "A=A" forwarded "A" and kept "=A"
C16_Witness ==
    /\ kind = "qp"
    /\ ncalls = 1
    /\ fed = <<65, PAD, 65>>
    /\ qp_cache = <<PAD, 65>>
    /\ sink = <<SinkWrite(<<65>>)>>

\* C18: on a QuotedPrintableDecoder the segments passed to the decoding
\* rule so far, concatenated in order and followed by the cache, are the
\* data of all writes so far, concatenated in order.
C18_QPConservation == kind = "qp" => handed \o qp_cache = fed

\* writes and a finalize passed every byte on, in more than one segment
C18_Witness ==
    /\ kind = "qp"
    /\ ret.op = "finalize"
    /\ Len(fed) >= 3
    /\ handed = fed
    /\ Count(sink, "write") >= 2

\* C19: the cache of a QuotedPrintableDecoder is empty or holds a "=".
C19_QPCacheHoldsEq ==
    kind = "qp"
        => (Len(qp_cache) = 0 \/ \E i \in 1..Len(qp_cache) : qp_cache[i] = PAD)

\* "A=" is held back
C19_Witness ==
    /\ kind = "qp"
    /\ ret.op = "write"
    /\ qp_cache = <<65, PAD>>

\* C15: in a Base64Decoder over a QuotedPrintableDecoder over a terminal
\* sink, an outer finalize that returns makes the inner decoder decode its
\* cached tail, write it to the terminal sink and empty its cache, and then
\* calls the finalize of a terminal sink that has one exactly once, after
\* every write the terminal sink has received; an outer close calls the
\* close of a terminal sink that has one exactly once and does nothing else.
C15_ChainLifecycle ==
    [][(kind = "chain" /\ ncalls' = ncalls + 1)
          => /\ (ret'.op = "finalize" /\ ~ret'.raised)
                    => /\ sink' = sink
                            \o (IF Len(qp_cache) > 0
                                THEN <<SinkWrite(A2bQp(qp_cache))>>
                                ELSE <<>>)
                            \o (IF has_finalize THEN <<SinkFinalize>>
                                ELSE <<>>)
                       /\ qp_cache' = <<>>
                       /\ has_finalize
                            => /\ Count(sink', "finalize")
                                    = Count(sink, "finalize") + 1
                               /\ sink'[Len(sink')] = SinkFinalize
             /\ ret'.op = "close"
                    => /\ ~ret'.raised
                       /\ sink' = IF has_close THEN Append(sink, SinkClose)
                                  ELSE sink
                       /\ qp_cache' = qp_cache
                       /\ b64_cache' = b64_cache]_vars

\* write("QT0=") left "A=" in the inner cache; the outer finalize had it
\* decoded to "A" and written, then finalized the terminal sink; the outer
\* close closed it
C15_Witness ==
    /\ kind = "chain"
    /\ ncalls = 3
    /\ ret = Returned("close", 0)
    /\ fed = <<65, PAD>>
    /\ sink = <<SinkWrite(<<65>>), SinkFinalize, SinkClose>>

====
